---- MODULE Spec2Model ----
(***************************************************************************)
(* The WaitForConfirmation event of rmf_task_sequence: the event template  *)
(* (Description), the confirmation-wait estimator (Model) with its         *)
(* request/response correlation over the two ROS topics, and the           *)
(* estimate_finish algorithm.                                              *)
(*                                                                         *)
(* Units: one time unit is 5 seconds; a state of charge is an integer      *)
(* number of hundredths (8 is 0.08).                                       *)
(***************************************************************************)
EXTENDS Integers, Sequences, FiniteSets, TLC

VARIABLES
  now,    \* std::chrono::steady_clock::now()
  desc,   \* the Description's Implementation (initial_wait_duration, timeout_duration)
  est,    \* the Models manufactured so far, by name
  last,   \* the most recent operation: its arguments, the Model before it, what it returned and published
  plan,   \* a polling caller: the state, arrival time and constraints it passes next
  hist,   \* the polling caller's record of its estimate_finish calls
  frame,  \* an estimate_finish call in progress on the planning thread, taken line by line
  twin    \* the always-advance Model built from the same arguments, and what its last call returned

vars == <<now, desc, est, last, plan, hist, frame, twin>>

----------------------------------------------------------------------------
\* Bounds

MaxTime == 2          \* the steady clock stops advancing here
MaxDuration == 1      \* the largest configured duration
MaxSoc == 2           \* the largest state of charge passed to estimate_finish
MaxPolls == 4         \* estimate_finish calls the polling caller records
MaxPollTime == 5      \* the steady clock's last value under polling

----------------------------------------------------------------------------
\* Values

\* std::optional<T>
Some(v) == [has |-> TRUE, value |-> v]
Nullopt == [has |-> FALSE, value |-> 0]

\* rmf_task::State: an optional time and an optional battery state of charge
State(t, soc) == [time |-> t, battery_soc |-> soc]

\* rmf_task::Constraints
Constraints(drain, threshold) == [drain_battery |-> drain, threshold_soc |-> threshold]

\* rmf_task::Parameters::ambient_sink(): absent, or a sink draining `rate`
\* hundredths of charge per time unit
NoSink == [has_sink |-> FALSE, rate |-> 0]
Sink(r) == [has_sink |-> TRUE, rate |-> r]

\* the token space of uuid_generate_random, and the tokens inbound messages carry
UUIDs == {"u1", "u2"}
Tokens == UUIDs \cup {"u0"}

Durations == -1 .. MaxDuration
Timeouts == 0 .. MaxDuration
InitialStates == {State(Some(0), Some(MaxSoc))}
ParameterSets == {NoSink, Sink(1)}

\* the Models that can be alive together
Estimators == {"A", "B"}

\* the arguments of an estimate_finish call
Call(state, earliest_arrival_time, constraints) ==
  [state |-> state, earliest_arrival_time |-> earliest_arrival_time,
   constraints |-> constraints]

\* every combination of an unset or set time, an unset or set state of charge,
\* draining or not, and a threshold
InputTimes == {Nullopt, Some(0), Some(3)}
InputSocs == {Nullopt} \cup {Some(s) : s \in 0 .. MaxSoc}
Thresholds == {0, 1}
AnyCall ==
  {Call(State(t, soc), 7, Constraints(d, th)) :
     t \in InputTimes, soc \in InputSocs, d \in BOOLEAN, th \in Thresholds}

\* the calls made where two Models live side by side
FewCalls ==
  {Call(State(t, Some(MaxSoc)), 7, Constraints(TRUE, 0)) : t \in {Nullopt, Some(0)}}

\* what estimate_finish gives back: an Estimate, std::nullopt (with the
\* message it logged) or an exception leaving the call
NoState == State(Nullopt, Nullopt)
Estimate(state, finish) == [kind |-> "Estimate", log |-> "", state |-> state, finish |-> finish]
None(log) == [kind |-> "None", log |-> log, state |-> NoState, finish |-> 0]
Throw == [kind |-> "Throw", log |-> "bad_optional_access", state |-> NoState, finish |-> 0]
NoResult == [kind |-> "", log |-> "", state |-> NoState, finish |-> 0]

----------------------------------------------------------------------------
\* WaitForConfirmation::Model

\* AmbientPowerSink::compute_change_in_charge(seconds)
compute_change_in_charge(parameters, seconds) == parameters.rate * seconds

\* a request that carries no uuid
request_confirmation_untagged(m, clock) ==
  [model |-> [m EXCEPT !.confirmation_request_time = clock],
   published |-> <<"">>]

\* a request whose time is not recorded
request_confirmation_unrecorded(m, clock) ==
  [model |-> m, published |-> <<m.task_uuid>>]

\* publish the Model's own uuid and record when
request_confirmation(m, clock) ==
  [model |-> [m EXCEPT !.confirmation_request_time = clock],
   published |-> <<m.task_uuid>>]

\* the constructor, with the uuid generate_uuid() drew
Model(invariant_initial_state, initial_wait_duration, timeout_duration, parameters, uuid, clock) ==
  LET duration == IF initial_wait_duration < 0 THEN 0 ELSE initial_wait_duration
      drain == IF parameters.has_sink
                 THEN compute_change_in_charge(parameters, duration)
                 ELSE 0
  IN request_confirmation(
       [invariant_finish_state |-> invariant_initial_state,
        invariant_battery_drain |-> drain,
        initial_wait_duration |-> initial_wait_duration,
        timeout_duration |-> timeout_duration,
        confirmation_received |-> FALSE,
        confirmation_request_time |-> 0,
        task_uuid |-> uuid], clock)

\* a callback that stores the outcome of the comparison
on_confirmation_received_assign(m, msg) ==
  [m EXCEPT !.confirmation_received = (msg = m.task_uuid)]

\* a callback that does not compare the token
on_confirmation_received_any(m, msg) ==
  [m EXCEPT !.confirmation_received = TRUE]

\* the subscription callback
on_confirmation_received(m, msg) ==
  IF msg = m.task_uuid
    THEN [m EXCEPT !.confirmation_received = TRUE]
    ELSE m

\* a timeout test that already fires at the bound
timeout_reached_inclusive(elapsed_time, timeout_duration) ==
  elapsed_time >= timeout_duration

\* the timeout test of estimate_finish
timeout_reached(elapsed_time, timeout_duration) == elapsed_time > timeout_duration

\* a wait that is not folded into the state
extend_wait_skipped(m, state) == state

\* "Extend wait duration": the state's time moves on by one wait
extend_wait(m, state) ==
  [state EXCEPT !.time = Some(state.time.value + m.initial_wait_duration)]

\* the depletion test while waiting, on a state whose charge is set
waiting_depleted(m, state) ==
  state.battery_soc.value - m.invariant_battery_drain < 0

\* a threshold test made only when the battery drains
waiting_below_threshold_gated(state, constraints) ==
  constraints.drain_battery /\ state.battery_soc.value <= constraints.threshold_soc

\* a threshold test that lets the threshold itself pass
waiting_below_threshold_exclusive(state, constraints) ==
  state.battery_soc.value < constraints.threshold_soc

\* the threshold test while waiting, on a state whose charge is set
waiting_below_threshold(state, constraints) ==
  state.battery_soc.value <= constraints.threshold_soc

\* the battery update and the threshold test while waiting: the state to
\* return, or the failure
waiting_battery(m, state, constraints) ==
  IF constraints.drain_battery /\ ~state.battery_soc.has THEN Throw
  ELSE IF constraints.drain_battery /\ waiting_depleted(m, state)
    THEN None("depleted")
  ELSE LET drained == IF constraints.drain_battery
                        THEN [state EXCEPT !.battery_soc =
                                Some(state.battery_soc.value - m.invariant_battery_drain)]
                        ELSE state
       IN IF ~drained.battery_soc.has THEN Throw
          ELSE IF waiting_below_threshold(drained, constraints)
            THEN None("threshold")
          ELSE Estimate(drained, 0)

\* no depletion test once confirmed
confirmed_depleted_never(m, state) == FALSE

\* the depletion test once confirmed, on a state whose charge is set
confirmed_depleted(m, state) ==
  state.battery_soc.value - m.invariant_battery_drain < 0

\* the threshold test once confirmed, on a state whose charge is set
confirmed_below_threshold(state, constraints) ==
  state.battery_soc.value <= constraints.threshold_soc

\* the battery update and the threshold test once confirmed
confirmed_battery(m, state, constraints) ==
  IF constraints.drain_battery /\ ~state.battery_soc.has THEN Throw
  ELSE IF constraints.drain_battery /\ confirmed_depleted(m, state)
    THEN None("depleted")
  ELSE LET drained == IF constraints.drain_battery
                        THEN [state EXCEPT !.battery_soc =
                                Some(state.battery_soc.value - m.invariant_battery_drain)]
                        ELSE state
       IN IF ~drained.battery_soc.has THEN Throw
          ELSE IF confirmed_below_threshold(drained, constraints)
            THEN None("threshold")
          ELSE Estimate(drained, 0)

\* the finish time of the Estimate returned while waiting
waiting_finish_time(state, earliest_arrival_time) == earliest_arrival_time

\* the arrival time as the finish time once confirmed
confirmed_finish_time_arrival(state, earliest_arrival_time) == earliest_arrival_time

\* the finish time of the Estimate returned once confirmed, on a state whose
\* time is set
confirmed_finish_time(state, earliest_arrival_time) == state.time.value

\* a timeout rejection that asks for the confirmation once more
timeout_rejection_rerequest(m, clock) ==
  [result |-> None("timeout"),
   model |-> request_confirmation(m, clock).model,
   published |-> request_confirmation(m, clock).published]

\* a timeout rejection that announces itself on the request topic
timeout_rejection_publishes(m, clock) ==
  [result |-> None("timeout"), model |-> m, published |-> <<m.task_uuid>>]

\* "Fail the task due to timeout": nothing is asked again, nothing recorded
timeout_rejection(m, clock) ==
  [result |-> None("timeout"), model |-> m, published |-> << >>]

\* the branch of estimate_finish taken while no confirmation has arrived
estimate_waiting(m, state, earliest_arrival_time, constraints, clock) ==
  IF timeout_reached(clock - m.confirmation_request_time, m.timeout_duration)
    THEN timeout_rejection(m, clock)
  ELSE IF ~state.time.has
    THEN [result |-> Throw, model |-> m, published |-> << >>]
  ELSE LET extended == extend_wait(m, state)
           req == request_confirmation(m, clock)
           checked == waiting_battery(m, extended, constraints)
       IN [result |-> IF checked.kind = "Estimate"
                        THEN Estimate(checked.state,
                               waiting_finish_time(checked.state, earliest_arrival_time))
                        ELSE checked,
           model |-> req.model,
           published |-> req.published]

\* the branch of estimate_finish taken once the confirmation has arrived
estimate_confirmed(m, state, earliest_arrival_time, constraints, clock) ==
  LET checked == confirmed_battery(m, state, constraints)
  IN [result |-> IF checked.kind # "Estimate" THEN checked
                 ELSE IF ~checked.state.time.has THEN Throw
                 ELSE Estimate(checked.state,
                        confirmed_finish_time(checked.state, earliest_arrival_time)),
      model |-> m,
      published |-> << >>]

\* an estimate_finish that tests the timeout before the confirmation
estimate_finish_timeout_first(m, state, earliest_arrival_time, constraints, clock) ==
  IF timeout_reached(clock - m.confirmation_request_time, m.timeout_duration)
    THEN timeout_rejection(m, clock)
  ELSE IF ~m.confirmation_received
    THEN estimate_waiting(m, state, earliest_arrival_time, constraints, clock)
    ELSE estimate_confirmed(m, state, earliest_arrival_time, constraints, clock)

\* Model::estimate_finish
estimate_finish(m, state, earliest_arrival_time, constraints, clock) ==
  IF ~m.confirmation_received
    THEN estimate_waiting(m, state, earliest_arrival_time, constraints, clock)
    ELSE estimate_confirmed(m, state, earliest_arrival_time, constraints, clock)

\* the duration of the always-advance variant
invariant_duration_fixed(m) == m.initial_wait_duration

invariant_duration(m) ==
  IF m.confirmation_received THEN 0 ELSE m.initial_wait_duration

invariant_finish_state(m) == m.invariant_finish_state

\* WaitForConfirmation::Description
Description(initial_wait_duration, timeout_duration) ==
  [initial_wait_duration |-> initial_wait_duration,
   timeout_duration |-> timeout_duration]

make_model(d, invariant_initial_state, parameters, uuid, clock) ==
  Model(invariant_initial_state, d.initial_wait_duration, d.timeout_duration,
        parameters, uuid, clock)

\* The always-advance WaitForConfirmation::Model: no messaging, no latch

\* its constructor
AlwaysAdvanceModel(invariant_initial_state, initial_wait_duration, timeout_duration, parameters) ==
  LET duration == IF initial_wait_duration < 0 THEN 0 ELSE initial_wait_duration
  IN [invariant_finish_state |-> invariant_initial_state,
      invariant_battery_drain |-> IF parameters.has_sink
                                    THEN compute_change_in_charge(parameters, duration)
                                    ELSE 0,
      initial_wait_duration |-> initial_wait_duration,
      timeout_duration |-> timeout_duration]

\* an estimate_finish that lets a charge at the threshold pass
always_advance_estimate_finish_exclusive(m, state, earliest_arrival_time, constraints) ==
  IF ~state.time.has THEN Throw
  ELSE IF constraints.drain_battery /\ ~state.battery_soc.has THEN Throw
  ELSE IF constraints.drain_battery
            /\ state.battery_soc.value - m.invariant_battery_drain < 0
    THEN None("")
  ELSE LET advanced == [state EXCEPT !.time = Some(state.time.value + m.initial_wait_duration)]
           drained == IF constraints.drain_battery
                        THEN [advanced EXCEPT !.battery_soc =
                                Some(state.battery_soc.value - m.invariant_battery_drain)]
                        ELSE advanced
       IN IF ~drained.battery_soc.has THEN Throw
          ELSE IF drained.battery_soc.value < constraints.threshold_soc
            THEN None("")
          ELSE Estimate(drained, earliest_arrival_time)

\* its estimate_finish: the wait is added, the battery drained and tested,
\* and nothing is logged
always_advance_estimate_finish(m, state, earliest_arrival_time, constraints) ==
  IF ~state.time.has THEN Throw
  ELSE IF constraints.drain_battery /\ ~state.battery_soc.has THEN Throw
  ELSE IF constraints.drain_battery
            /\ state.battery_soc.value - m.invariant_battery_drain < 0
    THEN None("")
  ELSE LET advanced == [state EXCEPT !.time = Some(state.time.value + m.initial_wait_duration)]
           drained == IF constraints.drain_battery
                        THEN [advanced EXCEPT !.battery_soc =
                                Some(state.battery_soc.value - m.invariant_battery_drain)]
                        ELSE advanced
       IN IF ~drained.battery_soc.has THEN Throw
          ELSE IF drained.battery_soc.value <= constraints.threshold_soc
            THEN None("")
          ELSE Estimate(drained, earliest_arrival_time)

\* its Description::make_model
always_advance_make_model(d, invariant_initial_state, parameters) ==
  AlwaysAdvanceModel(invariant_initial_state, d.initial_wait_duration,
                     d.timeout_duration, parameters)

----------------------------------------------------------------------------
\* The record of the most recent operation

NoModel ==
  [invariant_finish_state |-> NoState, invariant_battery_drain |-> 0,
   initial_wait_duration |-> 0, timeout_duration |-> 0,
   confirmation_received |-> FALSE, confirmation_request_time |-> 0,
   task_uuid |-> ""]

NoCall ==
  [op |-> "none", e |-> "", pre |-> NoModel, state |-> NoState,
   earliest_arrival_time |-> 0, constraints |-> Constraints(FALSE, 0),
   msg |-> "", result |-> NoResult, duration |-> 0, published |-> <<>>]

NoPlan ==
  [state |-> NoState, earliest_arrival_time |-> 0,
   constraints |-> Constraints(FALSE, 0)]

\* no estimate_finish call is in progress
NoFrame ==
  [pc |-> "idle", call |-> NoPlan, elapsed |-> 0, pre |-> NoModel,
   flag |-> FALSE, state |-> NoState, published |-> << >>]

\* no always-advance Model has been built
NoTwin ==
  [model |-> [invariant_finish_state |-> NoState, invariant_battery_drain |-> 0,
              initial_wait_duration |-> 0, timeout_duration |-> 0],
   result |-> NoResult]

----------------------------------------------------------------------------
\* Operations

Init ==
  /\ now = 0
  /\ desc \in {Description(w, t) : w \in Durations, t \in Timeouts}
  /\ est = << >>
  /\ last = NoCall
  /\ plan = NoPlan
  /\ hist = << >>
  /\ frame = NoFrame
  /\ twin = NoTwin

\* the steady clock advances
Tick(limit) ==
  /\ now < limit
  /\ now' = now + 1
  /\ last' = NoCall
  /\ UNCHANGED <<desc, est, plan, hist, frame, twin>>

\* Description::make_model, for one of the Models in E
MakeModel(E) ==
  /\ \E e \in E \ DOMAIN est, s \in InitialStates, p \in ParameterSets, u \in UUIDs :
       LET made == make_model(desc, s, p, u, now)
       IN /\ est' = (e :> made.model) @@ est
          /\ last' = [NoCall EXCEPT !.op = "make_model", !.e = e, !.state = s,
                                    !.published = made.published]
  /\ UNCHANGED <<now, desc, plan, hist, frame, twin>>

\* a message on /confirmation_received reaches the subscription of every Model
Deliver ==
  /\ DOMAIN est # {}
  /\ \E msg \in Tokens :
       /\ est' = [e \in DOMAIN est |-> on_confirmation_received(est[e], msg)]
       /\ last' = [NoCall EXCEPT !.op = "deliver", !.msg = msg]
  /\ UNCHANGED <<now, desc, plan, hist, frame, twin>>

\* Model::estimate_finish with one of the argument lists in Calls
EstimateFinish(Calls) ==
  /\ \E e \in DOMAIN est, c \in Calls :
       LET call == estimate_finish(est[e], c.state, c.earliest_arrival_time,
                                   c.constraints, now)
       IN /\ est' = [est EXCEPT ![e] = call.model]
          /\ last' = [NoCall EXCEPT !.op = "estimate_finish", !.e = e,
                                    !.pre = est[e], !.state = c.state,
                                    !.earliest_arrival_time = c.earliest_arrival_time,
                                    !.constraints = c.constraints,
                                    !.result = call.result,
                                    !.published = call.published]
  /\ UNCHANGED <<now, desc, plan, hist, frame, twin>>

\* Model::invariant_duration
InvariantDuration ==
  /\ \E e \in DOMAIN est :
       last' = [NoCall EXCEPT !.op = "invariant_duration", !.e = e,
                              !.pre = est[e],
                              !.duration = invariant_duration(est[e])]
  /\ UNCHANGED <<now, desc, est, plan, hist, frame, twin>>

\* Model::invariant_finish_state
InvariantFinishState ==
  /\ \E e \in DOMAIN est :
       last' = [NoCall EXCEPT !.op = "invariant_finish_state", !.e = e,
                              !.pre = est[e],
                              !.state = invariant_finish_state(est[e])]
  /\ UNCHANGED <<now, desc, est, plan, hist, frame, twin>>

\* Two Models side by side, sharing the topic pair
Next ==
  \/ Tick(MaxTime)
  \/ MakeModel(Estimators)
  \/ Deliver
  \/ EstimateFinish(FewCalls)
  \/ InvariantDuration
  \/ InvariantFinishState

Spec == Init /\ [][Next]_vars

\* One Model, called with every kind of state and constraints
NextCall ==
  \/ Tick(MaxTime)
  \/ MakeModel({"A"})
  \/ Deliver
  \/ EstimateFinish(AnyCall)
  \/ InvariantDuration
  \/ InvariantFinishState

SpecCall == Init /\ [][NextCall]_vars

\* A caller that polls one Model, passing each call the state the previous
\* Estimate returned. The Model is built at time 0.
PollDescriptions == {Description(w, t) : w \in {1, 2}, t \in {1, 4}}
PollStates == {State(Some(0), Some(8))}
PollConstraints == {Constraints(d, 5) : d \in BOOLEAN}

InitPoll ==
  /\ now = 0
  /\ desc \in PollDescriptions
  /\ \E s \in InitialStates, p \in ParameterSets :
       LET made == make_model(desc, s, p, "u1", 0)
       IN /\ est = ("A" :> made.model)
          /\ last = [NoCall EXCEPT !.op = "make_model", !.e = "A", !.state = s,
                                   !.published = made.published]
  /\ plan \in {Call(s, 7, c) : s \in PollStates, c \in PollConstraints}
  /\ hist = << >>
  /\ frame = NoFrame
  /\ twin = NoTwin

\* the caller's next estimate_finish call
Poll ==
  /\ Len(hist) < MaxPolls
  /\ LET call == estimate_finish(est["A"], plan.state, plan.earliest_arrival_time,
                                 plan.constraints, now)
     IN /\ est' = [est EXCEPT !["A"] = call.model]
        /\ last' = [NoCall EXCEPT !.op = "estimate_finish", !.e = "A",
                                  !.pre = est["A"], !.state = plan.state,
                                  !.earliest_arrival_time = plan.earliest_arrival_time,
                                  !.constraints = plan.constraints,
                                  !.result = call.result,
                                  !.published = call.published]
        /\ hist' = Append(hist, [at |-> now,
                                 confirmed |-> est["A"].confirmation_received,
                                 state |-> plan.state,
                                 result |-> call.result])
        /\ plan' = IF call.result.kind = "Estimate"
                     THEN [plan EXCEPT !.state = call.result.state]
                     ELSE plan
  /\ UNCHANGED <<now, desc, frame, twin>>

NextPoll ==
  \/ Tick(MaxPollTime)
  \/ Deliver
  \/ Poll

SpecPoll == InitPoll /\ [][NextPoll]_vars

\* One Model whose estimate_finish runs line by line on the planning thread
\* while the subscription callback runs on the delivery thread. The clock
\* value does not change within a call.

\* the branch a call is in after its test of _confirmation_received, re-read
\* from the Model
finish_branch_reread(flag, m) == m.confirmation_received

\* the branch a call is in after its test of _confirmation_received: the one
\* the test chose
finish_branch(flag, m) == flag

\* the record of a finished call
Finished(result, published) ==
  [NoCall EXCEPT !.op = "estimate_finish", !.e = "A", !.pre = frame.pre,
                 !.state = frame.call.state,
                 !.earliest_arrival_time = frame.call.earliest_arrival_time,
                 !.constraints = frame.call.constraints,
                 !.result = result, !.published = published]

\* the clock is read and the elapsed time computed
RaceBegin(Calls) ==
  /\ frame.pc = "idle"
  /\ "A" \in DOMAIN est
  /\ \E c \in Calls :
       frame' = [NoFrame EXCEPT !.pc = "test", !.call = c,
                                !.elapsed = now - est["A"].confirmation_request_time,
                                !.pre = est["A"], !.state = c.state]
  /\ last' = NoCall
  /\ UNCHANGED <<now, desc, est, plan, hist, twin>>

\* _confirmation_received is tested
RaceTest ==
  /\ frame.pc = "test"
  /\ frame' = [frame EXCEPT !.pc = "body", !.flag = est["A"].confirmation_received]
  /\ UNCHANGED <<now, desc, est, last, plan, hist, twin>>

\* while waiting: the timeout test, the extension of the wait and the new
\* request; once confirmed: nothing
RaceRequest ==
  /\ frame.pc = "body"
  /\ IF frame.flag
       THEN /\ frame' = [frame EXCEPT !.pc = "finish"]
            /\ UNCHANGED <<est, last>>
     ELSE IF timeout_reached(frame.elapsed, est["A"].timeout_duration)
       THEN LET out == timeout_rejection(est["A"], now)
            IN /\ est' = [est EXCEPT !["A"] = out.model]
               /\ last' = Finished(out.result, out.published)
               /\ frame' = NoFrame
     ELSE IF ~frame.state.time.has
       THEN /\ last' = Finished(Throw, << >>)
            /\ frame' = NoFrame
            /\ UNCHANGED est
     ELSE LET req == request_confirmation(est["A"], now)
          IN /\ est' = [est EXCEPT !["A"] = req.model]
             /\ frame' = [frame EXCEPT !.pc = "finish",
                                       !.state = extend_wait(est["A"], frame.state),
                                       !.published = req.published]
             /\ UNCHANGED last
  /\ UNCHANGED <<now, desc, plan, hist, twin>>

\* the battery update, the threshold test and the return
RaceFinish ==
  /\ frame.pc = "finish"
  /\ LET c == frame.call
         waiting == waiting_battery(est["A"], frame.state, c.constraints)
         confirmed == confirmed_battery(est["A"], frame.state, c.constraints)
         result ==
           IF ~finish_branch(frame.flag, est["A"])
             THEN IF waiting.kind = "Estimate"
                    THEN Estimate(waiting.state,
                           waiting_finish_time(waiting.state, c.earliest_arrival_time))
                    ELSE waiting
             ELSE IF confirmed.kind # "Estimate" THEN confirmed
                  ELSE IF ~confirmed.state.time.has THEN Throw
                  ELSE Estimate(confirmed.state,
                         confirmed_finish_time(confirmed.state, c.earliest_arrival_time))
     IN last' = Finished(result, frame.published)
  /\ frame' = NoFrame
  /\ UNCHANGED <<now, desc, est, plan, hist, twin>>

\* the steady clock advances between calls
TickIdle ==
  /\ frame.pc = "idle"
  /\ Tick(MaxTime)

NextRace ==
  \/ TickIdle
  \/ MakeModel({"A"})
  \/ Deliver
  \/ RaceBegin(AnyCall)
  \/ RaceTest
  \/ RaceRequest
  \/ RaceFinish

SpecRace == Init /\ [][NextRace]_vars

\* A Description that is changed between the Models it makes

\* the durations the setters are given
NewDurations == {1, 2}

\* Description::make(initial_wait_duration, timeout_duration)
InitTemplate ==
  /\ now = 0
  /\ desc = Description(1, 1)
  /\ est = << >>
  /\ last = NoCall
  /\ plan = NoPlan
  /\ hist = << >>
  /\ frame = NoFrame
  /\ twin = NoTwin

\* a template whose Models read the wait through it
set_initial_wait_duration_shared ==
  /\ \E d \in NewDurations :
       /\ d # desc.initial_wait_duration
       /\ desc' = [desc EXCEPT !.initial_wait_duration = d]
       /\ est' = [e \in DOMAIN est |-> [est[e] EXCEPT !.initial_wait_duration = d]]
  /\ last' = [NoCall EXCEPT !.op = "set_initial_wait_duration"]
  /\ UNCHANGED <<now, plan, hist, frame, twin>>

\* Description::initial_wait_duration(new_initial_wait_duration)
set_initial_wait_duration ==
  /\ \E d \in NewDurations :
       /\ d # desc.initial_wait_duration
       /\ desc' = [desc EXCEPT !.initial_wait_duration = d]
  /\ last' = [NoCall EXCEPT !.op = "set_initial_wait_duration"]
  /\ UNCHANGED <<now, est, plan, hist, frame, twin>>

\* Description::timeout_duration(new_timeout_duration)
set_timeout_duration ==
  /\ \E t \in NewDurations :
       /\ t # desc.timeout_duration
       /\ desc' = [desc EXCEPT !.timeout_duration = t]
  /\ last' = [NoCall EXCEPT !.op = "set_timeout_duration"]
  /\ UNCHANGED <<now, est, plan, hist, frame, twin>>

NextTemplate ==
  \/ Tick(1)
  \/ set_initial_wait_duration
  \/ set_timeout_duration
  \/ MakeModel(Estimators)
  \/ Deliver
  \/ EstimateFinish(FewCalls)
  \/ InvariantFinishState

SpecTemplate == InitTemplate /\ [][NextTemplate]_vars

\* The two variants side by side: one Model of each, built from the same
\* arguments and called with the same arguments

\* make_model of both Descriptions
MakeBoth ==
  /\ "A" \notin DOMAIN est
  /\ \E s \in InitialStates, p \in ParameterSets, u \in UUIDs :
       LET made == make_model(desc, s, p, u, now)
       IN /\ est' = ("A" :> made.model)
          /\ twin' = [NoTwin EXCEPT !.model = always_advance_make_model(desc, s, p)]
          /\ last' = [NoCall EXCEPT !.op = "make_model", !.e = "A", !.state = s,
                                    !.published = made.published]
  /\ UNCHANGED <<now, desc, plan, hist, frame>>

\* estimate_finish of both Models
EstimateBoth(Calls) ==
  /\ "A" \in DOMAIN est
  /\ \E c \in Calls :
       LET call == estimate_finish(est["A"], c.state, c.earliest_arrival_time,
                                   c.constraints, now)
       IN /\ est' = [est EXCEPT !["A"] = call.model]
          /\ twin' = [twin EXCEPT !.result =
                        always_advance_estimate_finish(twin.model, c.state,
                          c.earliest_arrival_time, c.constraints)]
          /\ last' = [NoCall EXCEPT !.op = "estimate_finish", !.e = "A",
                                    !.pre = est["A"], !.state = c.state,
                                    !.earliest_arrival_time = c.earliest_arrival_time,
                                    !.constraints = c.constraints,
                                    !.result = call.result,
                                    !.published = call.published]
  /\ UNCHANGED <<now, desc, plan, hist, frame>>

NextTwin ==
  \/ Tick(MaxTime)
  \/ MakeBoth
  \/ Deliver
  \/ EstimateBoth(AnyCall)

SpecTwin == Init /\ [][NextTwin]_vars

----------------------------------------------------------------------------
\* Properties

TimedOut(m, clock) == clock - m.confirmation_request_time > m.timeout_duration

Called == last.op = "estimate_finish"

\* C1: confirmation_received is false in a Model just constructed, and a step
\* of any operation that finds it true leaves it true.
C1_Latch ==
  [][ /\ \A e \in DOMAIN est' \ DOMAIN est : ~est'[e].confirmation_received
      /\ \A e \in DOMAIN est :
           est[e].confirmation_received => est'[e].confirmation_received ]_vars

\* a latched Model has been handed a message carrying another token
C1_Witness ==
  /\ last.op = "deliver"
  /\ \E e \in DOMAIN est :
       est[e].confirmation_received /\ est[e].task_uuid # last.msg

\* C2: a delivered message latches exactly the Models whose token it carries
\* and leaves the latch of every other Model as it was: with distinct tokens
\* in A and B, A's token latches A and not B, and a token nobody holds
\* changes no latch.
C2_TokenCorrelation ==
  [][ last'.op = "deliver" =>
        \A e \in DOMAIN est :
          est'[e].confirmation_received =
            (est[e].confirmation_received \/ est[e].task_uuid = last'.msg) ]_vars

\* A's token was delivered while B, holding another token, was alive: A is
\* latched and B is not
C2_Witness ==
  /\ last.op = "deliver"
  /\ DOMAIN est = Estimators
  /\ est["A"].task_uuid = last.msg
  /\ est["B"].task_uuid # last.msg
  /\ est["A"].confirmation_received
  /\ ~est["B"].confirmation_received

\* C3: for a Model whose initial_wait_duration is not negative,
\* invariant_duration() returns initial_wait_duration while the confirmation
\* is not latched and zero once it is.
C3_InvariantDuration ==
  (last.op = "invariant_duration" /\ last.pre.initial_wait_duration >= 0) =>
    /\ last.pre = est[last.e]
    /\ ~est[last.e].confirmation_received =>
         last.duration = est[last.e].initial_wait_duration
    /\ est[last.e].confirmation_received => last.duration = 0

\* invariant_duration() was called on a latched Model with a positive wait
C3_Witness ==
  /\ last.op = "invariant_duration"
  /\ last.pre.confirmation_received
  /\ last.pre.initial_wait_duration > 0
  /\ last.duration = 0

\* C4: an estimate_finish call on an unconfirmed Model returns None for
\* timeout whenever now - confirmation_request_time > timeout_duration, and
\* never returns None for timeout when that difference is at most
\* timeout_duration.
C4_TimeoutRule ==
  (Called /\ ~last.pre.confirmation_received) =>
    LET elapsed == now - last.pre.confirmation_request_time
    IN /\ elapsed > last.pre.timeout_duration => last.result = None("timeout")
       /\ elapsed <= last.pre.timeout_duration => last.result.log # "timeout"

\* a call made exactly timeout_duration after the request, with time having
\* passed, returned an Estimate
C4_Witness ==
  /\ Called
  /\ ~last.pre.confirmation_received
  /\ last.pre.timeout_duration > 0
  /\ now - last.pre.confirmation_request_time = last.pre.timeout_duration
  /\ last.result.kind = "Estimate"

\* C5: an Estimate returned for an unconfirmed Model carries the input time
\* plus one initial_wait_duration and the earliest_arrival_time argument as
\* its finish time, and the call has published the Model's token once and
\* set confirmation_request_time to the current time.
C5_WaitingEstimate ==
  (Called /\ ~last.pre.confirmation_received /\ last.result.kind = "Estimate") =>
    /\ last.state.time.has
    /\ last.result.state.time =
         Some(last.state.time.value + last.pre.initial_wait_duration)
    /\ last.result.finish = last.earliest_arrival_time
    /\ last.published = <<last.pre.task_uuid>>
    /\ est[last.e].confirmation_request_time = now
    /\ est[last.e] = [last.pre EXCEPT !.confirmation_request_time = now]

\* a waiting call, later than the previous request, returned an Estimate
\* whose time moved on by a positive wait
C5_Witness ==
  /\ Called
  /\ ~last.pre.confirmation_received
  /\ last.result.kind = "Estimate"
  /\ last.pre.initial_wait_duration > 0
  /\ last.pre.confirmation_request_time < now

\* C6: on a latched Model, a call whose state has its time and charge set and
\* passes the battery checks returns an Estimate, and every Estimate returned
\* keeps the input time and has that time as its finish time; nothing is
\* published.
C6_ConfirmedEstimate ==
  (Called /\ last.pre.confirmation_received) =>
    LET soc == last.state.battery_soc.value
        after == IF last.constraints.drain_battery
                   THEN soc - last.pre.invariant_battery_drain ELSE soc
        passes == /\ last.state.battery_soc.has
                  /\ after >= 0
                  /\ after > last.constraints.threshold_soc
    IN /\ (last.state.time.has /\ passes) => last.result.kind = "Estimate"
       /\ last.result.kind = "Estimate" =>
            /\ last.result.state.time = last.state.time
            /\ last.result.finish = last.state.time.value
       /\ last.published = << >>
       /\ est[last.e] = last.pre

\* a call on a latched Model with a positive wait returned an Estimate
\* finishing at the state's time, which is not the arrival time
C6_Witness ==
  /\ Called
  /\ last.pre.confirmation_received
  /\ last.pre.initial_wait_duration > 0
  /\ last.result.kind = "Estimate"
  /\ last.result.finish = 3
  /\ last.earliest_arrival_time # 3

\* C7: Scenario 1. With initial_wait_duration 5 s, timeout_duration 20 s, no
\* draining and no confirmation, calls made 5 s, 10 s, 15 s and 20 s after
\* construction give three Estimates, each 5 s further on, and then None.
C7_Scenario1 ==
  ( /\ desc = Description(1, 4)
    /\ ~plan.constraints.drain_battery
    /\ ~est["A"].confirmation_received
    /\ Len(hist) = 4
    /\ \A i \in 1 .. 4 : hist[i].at = i ) =>
    /\ \A i \in 1 .. 3 :
         /\ hist[i].result.kind = "Estimate"
         /\ hist[i].result.state.time = Some(hist[i].state.time.value + 1)
    /\ hist[4].result.kind = "None"

\* C8 as stated: without draining, a call on a confirmed or not timed out
\* Model never returns None.
C8_NeverRejects ==
  ( /\ Called
    /\ ~last.constraints.drain_battery
    /\ (last.pre.confirmation_received \/ ~TimedOut(last.pre, now)) ) =>
    last.result.kind # "None"

\* C8, amended: without draining, a call on a confirmed or not timed out
\* Model deducts nothing and never rejects for depletion, and it rejects on
\* the threshold only a charge at or below threshold_soc; a state with its
\* time and charge set is rejected exactly when its charge is at or below
\* threshold_soc and otherwise comes back in an Estimate with that charge.
C8_ThresholdOnly ==
  ( /\ Called
    /\ ~last.constraints.drain_battery
    /\ (last.pre.confirmation_received \/ ~TimedOut(last.pre, now)) ) =>
    /\ last.result.log # "depleted"
    /\ last.result.kind = "None" =>
         /\ last.result = None("threshold")
         /\ last.state.battery_soc.has
         /\ last.state.battery_soc.value <= last.constraints.threshold_soc
    /\ last.result.kind = "Estimate" =>
         last.result.state.battery_soc = last.state.battery_soc
    /\ (last.state.time.has /\ last.state.battery_soc.has) =>
         IF last.state.battery_soc.value <= last.constraints.threshold_soc
           THEN last.result = None("threshold")
           ELSE last.result.kind = "Estimate"

\* without draining, a waiting call within the timeout was rejected for a
\* charge at the threshold
C8_Witness ==
  /\ Called
  /\ ~last.constraints.drain_battery
  /\ ~last.pre.confirmation_received
  /\ ~TimedOut(last.pre, now)
  /\ last.state.time.has
  /\ last.state.battery_soc = Some(last.constraints.threshold_soc)
  /\ last.result = None("threshold")

\* C9: with draining, a state whose charge less invariant_battery_drain is
\* negative is rejected as depleted, whatever the threshold: on a latched
\* Model, and on a waiting Model within its timeout (the state's time being
\* set, which the waiting branch reads first).
C9_NegativeSoc ==
  ( /\ Called
    /\ last.constraints.drain_battery
    /\ last.state.battery_soc.has
    /\ last.state.battery_soc.value - last.pre.invariant_battery_drain < 0
    /\ \/ last.pre.confirmation_received
       \/ ~TimedOut(last.pre, now) /\ last.state.time.has ) =>
    last.result = None("depleted")

\* a latched Model rejected a state whose charge would go negative
C9_Witness ==
  /\ Called
  /\ last.constraints.drain_battery
  /\ last.pre.confirmation_received
  /\ last.state.battery_soc.has
  /\ last.state.battery_soc.value - last.pre.invariant_battery_drain < 0
  /\ last.result = None("depleted")

\* C10: with draining, in a chain of calls each fed the state the previous
\* one returned, a call that is not timed out returns an Estimate carrying
\* the charge after deduction while that charge is above threshold_soc, and
\* None once it is at or below; from 0.08 with 0.01 per call and threshold
\* 0.05 the calls give 0.07, 0.06 and None.
C10_ThresholdInclusive ==
  plan.constraints.drain_battery =>
    /\ \A i \in 1 .. Len(hist) :
         LET h == hist[i]
             after == h.state.battery_soc.value - est["A"].invariant_battery_drain
         IN /\ i > 1 =>
                 h.state = IF hist[i - 1].result.kind = "Estimate"
                             THEN hist[i - 1].result.state
                             ELSE hist[i - 1].state
            /\ h.result.log # "timeout" =>
                 /\ after > plan.constraints.threshold_soc =>
                      /\ h.result.kind = "Estimate"
                      /\ h.result.state.battery_soc = Some(after)
                 /\ after <= plan.constraints.threshold_soc =>
                      h.result.kind = "None"
    /\ ( /\ est["A"].invariant_battery_drain = 1
         /\ plan.constraints.threshold_soc = 5
         /\ Len(hist) >= 3
         /\ hist[1].state.battery_soc = Some(8)
         /\ \A i \in 1 .. 3 : hist[i].result.log # "timeout" ) =>
         /\ hist[1].result.kind = "Estimate"
         /\ hist[1].result.state.battery_soc = Some(7)
         /\ hist[2].result.kind = "Estimate"
         /\ hist[2].result.state.battery_soc = Some(6)
         /\ hist[3].result = None("threshold")

\* three waiting calls from 0.08 at 0.01 each: 0.07, 0.06, then None at 0.05
C10_Witness ==
  /\ plan.constraints.drain_battery
  /\ est["A"].invariant_battery_drain = 1
  /\ Len(hist) >= 3
  /\ \A i \in 1 .. 3 : ~hist[i].confirmed
  /\ hist[1].state.battery_soc = Some(8)
  /\ hist[2].state.battery_soc = Some(7)
  /\ hist[3].state.battery_soc = Some(6)
  /\ hist[3].result = None("threshold")

\* C11: once a call has returned None for timeout, every later call made at
\* the same clock value with the same arguments, no confirmation for the
\* Model's token having been delivered, returns None for timeout too.
C11_TimeoutIdempotent ==
  \A i \in 1 .. Len(hist) : \A j \in 1 .. Len(hist) :
    ( /\ i < j
      /\ hist[i].result = None("timeout")
      /\ hist[j].at = hist[i].at
      /\ hist[j].state = hist[i].state
      /\ ~hist[j].confirmed ) =>
      hist[j].result = None("timeout")

\* two calls at the same clock value, with time having passed since the
\* request, were both rejected for timeout
C11_Witness ==
  /\ Len(hist) >= 2
  /\ hist[1].result = None("timeout")
  /\ hist[2].result = None("timeout")
  /\ hist[2].at = hist[1].at
  /\ ~hist[2].confirmed

\* C12: a Model built with a negative initial_wait_duration behaves as one
\* built with zero: its invariant_battery_drain is that of a wait of no
\* length, invariant_duration() returns zero, and no Estimate carries a time
\* earlier than the time passed in.
C12_NegativeNormalized ==
  \A e \in DOMAIN est :
    est[e].initial_wait_duration < 0 =>
      /\ est[e].invariant_battery_drain = 0
      /\ (last.op = "invariant_duration" /\ last.e = e) => last.duration = 0
      /\ (Called /\ last.e = e /\ last.result.kind = "Estimate") =>
           last.result.state.time.value >= last.state.time.value

\* C13: however the callback falls between the lines of an estimate_finish
\* call, what the call returns, publishes and records is what the whole call
\* gives when run with the latch clear or with the latch set: with the latch
\* clear only if it was clear when the call began, with the latch set only
\* if it is set when the call ends. An Estimate that comes with a request
\* has the time moved on and finishes at the arrival time; an Estimate that
\* comes without one has the time as passed in and finishes at that time.
C13_AtomicLatch ==
  Called =>
    LET clear == estimate_finish([last.pre EXCEPT !.confirmation_received = FALSE],
                   last.state, last.earliest_arrival_time, last.constraints, now)
        set == estimate_finish([last.pre EXCEPT !.confirmation_received = TRUE],
                 last.state, last.earliest_arrival_time, last.constraints, now)
        Same(whole) ==
          /\ last.result = whole.result
          /\ last.published = whole.published
          /\ est[last.e].confirmation_request_time =
               whole.model.confirmation_request_time
    IN /\ Same(clear) \/ Same(set)
       /\ last.pre.confirmation_received => Same(set)
       /\ ~est[last.e].confirmation_received => Same(clear)
       /\ (last.result.kind = "Estimate" /\ last.published # << >>) =>
            /\ last.result.finish = last.earliest_arrival_time
            /\ last.result.state.time =
                 Some(last.state.time.value + last.pre.initial_wait_duration)
       /\ (last.result.kind = "Estimate" /\ last.published = << >>) =>
            /\ last.result.state.time = last.state.time
            /\ last.result.finish = last.state.time.value

\* the latch was set while a call was under way that had found it clear: the
\* call asked again and returned the Estimate of a waiting Model
C13_Witness ==
  /\ Called
  /\ frame.pc = "idle"
  /\ ~last.pre.confirmation_received
  /\ est[last.e].confirmation_received
  /\ last.published # << >>
  /\ last.result.kind = "Estimate"
  /\ last.pre.initial_wait_duration > 0

\* C14: in a step taken while a Model's confirmation_received is true, no
\* request is published for that Model and its confirmation_request_time
\* stays as it is.
C14_NoRerequest ==
  [][ \A e \in DOMAIN est :
        est[e].confirmation_received =>
          /\ est'[e].confirmation_request_time = est[e].confirmation_request_time
          /\ ~( /\ e = "A"
                /\ frame'.published # << >>
                /\ frame'.published # frame.published )
          /\ ~( /\ last' # last
                /\ last'.op = "estimate_finish"
                /\ last'.e = e
                /\ frame.pc = "idle"
                /\ last'.published # << >> ) ]_vars

\* C15: every estimate_finish call ends in an Estimate or in None, whatever
\* is set in the state passed in and whether the battery drains or not.
C15_TwoOutcomes ==
  Called => last.result.kind \in {"Estimate", "None"}

\* the five things a Model is built with
Configuration(m) ==
  <<m.invariant_finish_state, m.invariant_battery_drain,
    m.initial_wait_duration, m.timeout_duration, m.task_uuid>>

\* C16: no step, be it an estimate_finish call, a delivered message or a
\* setter of the Description, changes the invariant_finish_state, the
\* invariant_battery_drain, the initial_wait_duration, the timeout_duration or
\* the uuid of a Model that exists; invariant_finish_state() returns the
\* state the Model was built with, latched or not; and a Model made in a
\* step takes the durations the Description holds at that step.
C16_FrozenConfiguration ==
  [][ /\ \A e \in DOMAIN est :
           /\ e \in DOMAIN est'
           /\ Configuration(est'[e]) = Configuration(est[e])
      /\ \A e \in DOMAIN est' \ DOMAIN est :
           /\ est'[e].initial_wait_duration = desc.initial_wait_duration
           /\ est'[e].timeout_duration = desc.timeout_duration
           /\ est'[e].invariant_finish_state = last'.state
      /\ last'.op = "invariant_finish_state" =>
           last'.state = est[last'.e].invariant_finish_state ]_vars

\* B was made after the Description's wait was changed: A, latched since,
\* still has the old wait and gives back its finish state, B has the new one
C16_Witness ==
  /\ DOMAIN est = Estimators
  /\ est["A"].initial_wait_duration # est["B"].initial_wait_duration
  /\ est["B"].initial_wait_duration = desc.initial_wait_duration
  /\ est["A"].confirmation_received
  /\ last.op = "invariant_finish_state"
  /\ last.e = "A"

\* C17: without draining, a run of calls at strictly increasing clock values
\* on a Model that stays unconfirmed, every one of them returning an
\* Estimate, is no longer than the timeout allows: the clock advancing by at
\* least one unit per call, at most timeout_duration + 1 of them.
C17_BoundedWaiting ==
  ( /\ ~plan.constraints.drain_battery
    /\ \A i \in 1 .. Len(hist) :
         /\ ~hist[i].confirmed
         /\ hist[i].result.kind = "Estimate"
         /\ i > 1 => hist[i].at > hist[i - 1].at ) =>
    Len(hist) <= desc.timeout_duration + 1

\* C18: make_model publishes one request carrying the new Model's uuid,
\* records the construction time as confirmation_request_time and leaves the
\* Model unconfirmed; whatever an estimate_finish call publishes is one
\* request carrying the uuid of the Model called.
C18_FirstRequest ==
  /\ last.op = "make_model" =>
       /\ last.published = <<est[last.e].task_uuid>>
       /\ est[last.e].confirmation_request_time = now
       /\ ~est[last.e].confirmation_received
  /\ Called =>
       /\ last.published \in {<< >>, <<last.pre.task_uuid>>}
       /\ est[last.e].task_uuid = last.pre.task_uuid

\* B was made later than A, with another uuid
C18_Witness ==
  /\ last.op = "make_model"
  /\ last.e = "B"
  /\ now > 0
  /\ "A" \in DOMAIN est
  /\ est["A"].task_uuid # est["B"].task_uuid
  /\ est["A"].confirmation_request_time < now

C20_TimeoutChangesNothing ==
  (Called /\ ~last.pre.confirmation_received /\ last.result = None("timeout")) =>
    /\ last.published = << >>
    /\ est[last.e] = last.pre

\* a call was rejected for timeout on a Model with a timeout above zero
C20_Witness ==
  /\ Called
  /\ ~last.pre.confirmation_received
  /\ last.result = None("timeout")
  /\ last.pre.timeout_duration > 0
  /\ now - last.pre.confirmation_request_time > last.pre.timeout_duration

\* C21: a call on a Model whose confirmation_received is true never returns
\* None for timeout, however long ago the last request was and also after an
\* earlier call was rejected for timeout; what it returns is an Estimate or
\* None for the battery. A call that found the Model confirmed is followed
\* only by calls that find it confirmed.
C21_ConfirmedOverridesTimeout ==
  /\ \A i \in 1 .. Len(hist) :
       hist[i].confirmed =>
         /\ hist[i].result.log # "timeout"
         /\ hist[i].result.kind = "None" =>
              hist[i].result \in {None("depleted"), None("threshold")}
         /\ \A j \in i .. Len(hist) : hist[j].confirmed
  /\ (Len(hist) > 0 /\ hist[Len(hist)].confirmed) => est["A"].confirmation_received

\* a call was rejected for timeout; the confirmation came; a later call, with
\* still more time passed than the timeout, returned an Estimate
C21_Witness ==
  /\ Len(hist) >= 2
  /\ LET n == Len(hist)
     IN /\ ~hist[n - 1].confirmed
        /\ hist[n - 1].result = None("timeout")
        /\ hist[n].confirmed
        /\ hist[n].at > hist[n - 1].at
        /\ hist[n].at - est["A"].confirmation_request_time > desc.timeout_duration
        /\ hist[n].result.kind = "Estimate"

\* what a call gave back, apart from what it logged
Returned(result) == [result EXCEPT !.log = ""]

\* C22: a call on the live-messaging Model, unconfirmed and not timed out,
\* gives back what the same call gives on the always-advance Model built
\* from the same state, durations and parameters: None, or an Estimate with
\* the same state and the same finish time (or the same exception).
C22_VariantsAgree ==
  (Called /\ ~last.pre.confirmation_received /\ ~TimedOut(last.pre, now)) =>
    Returned(last.result) = Returned(twin.result)

\* both variants, draining, returned the Estimate of a positive wait, later
\* than the live variant's construction
C22_Witness ==
  /\ Called
  /\ ~last.pre.confirmation_received
  /\ ~TimedOut(last.pre, now)
  /\ now > 0
  /\ last.constraints.drain_battery
  /\ last.pre.initial_wait_duration > 0
  /\ last.pre.invariant_battery_drain > 0
  /\ last.result.kind = "Estimate"
  /\ twin.result.kind = "Estimate"

====
